---- MODULE Spec2Model ----
(***************************************************************************)
(* Model of src/server.js: an Express service keeping users in the         *)
(* process-local object `users`, with the validator validateUserData, the  *)
(* class User and the five route handlers.  Each handler is synchronous,   *)
(* so one handler is one atomic action.                                    *)
(***************************************************************************)
EXTENDS Integers, Sequences, FiniteSets

(***************************************************************************)
(* Bounds of the model.                                                    *)
(***************************************************************************)
\* uuids that uuidv4() hands out in one run
MaxIds == 2
\* own properties the object `users` holds at one time
MaxUsers == 2
\* the largest reading of the clock behind new Date()
MaxClock == 1

(***************************************************************************)
(* JavaScript values of the JSON body fields.  A string is the sequence of *)
(* its characters, so that trim, includes and parseInt are computed.       *)
(***************************************************************************)
Undefined == [kind |-> "undefined", str |-> <<>>, num |-> 0]
Null == [kind |-> "null", str |-> <<>>, num |-> 0]
Str(s) == [kind |-> "string", str |-> s, num |-> 0]
Num(n) == [kind |-> "number", str |-> <<>>, num |-> n]

\* JavaScript truthiness, as `!x` and `x && ...` use it
Truthy(v) ==
    CASE v.kind = "undefined" -> FALSE
      [] v.kind = "null" -> FALSE
      [] v.kind = "string" -> v.str # <<>>
      [] v.kind = "number" -> v.num # 0

WhiteSpace == {" ", "\t"}

RECURSIVE trimStart(_)
trimStart(s) ==
    IF s = <<>> THEN <<>>
    ELSE IF Head(s) \in WhiteSpace THEN trimStart(Tail(s))
    ELSE s

RECURSIVE trimEnd(_)
trimEnd(s) ==
    IF s = <<>> THEN <<>>
    ELSE IF s[Len(s)] \in WhiteSpace THEN trimEnd(SubSeq(s, 1, Len(s) - 1))
    ELSE s

\* String.prototype.trim
trim(s) == trimEnd(trimStart(s))

\* String.prototype.includes, for a one-character needle
includes(s, c) == \E i \in 1..Len(s) : s[i] = c

Digits == <<"0", "1", "2", "3", "4", "5", "6", "7", "8", "9">>

IsDigit(c) == \E d \in 1..10 : Digits[d] = c

DigitValue(c) == (CHOOSE d \in 1..10 : Digits[d] = c) - 1

RECURSIVE DigitsOf(_)
DigitsOf(n) ==
    IF n < 10 THEN <<Digits[n + 1]>>
    ELSE DigitsOf(n \div 10) \o <<Digits[(n % 10) + 1]>>

\* String(x), the first step of parseInt(x)
StringOf(v) ==
    CASE v.kind = "string" -> v.str
      [] v.kind = "number" ->
           IF v.num < 0 THEN <<"-">> \o DigitsOf(0 - v.num) ELSE DigitsOf(v.num)
      [] v.kind = "null" -> <<"n", "u", "l", "l">>
      [] v.kind = "undefined" ->
           <<"u", "n", "d", "e", "f", "i", "n", "e", "d">>

RECURSIVE LeadingDigits(_)
LeadingDigits(s) ==
    IF s = <<>> \/ ~IsDigit(Head(s)) THEN <<>>
    ELSE <<Head(s)>> \o LeadingDigits(Tail(s))

RECURSIVE DecimalValue(_)
DecimalValue(ds) ==
    IF ds = <<>> THEN 0
    ELSE 10 * DecimalValue(SubSeq(ds, 1, Len(ds) - 1)) + DigitValue(ds[Len(ds)])

\* parseInt(x) in radix 10: leading white space, an optional sign, then the
\* longest run of digits; NaN when there is no digit
parseInt(v) ==
    LET s == trimStart(StringOf(v))
        signed == s # <<>> /\ Head(s) \in {"+", "-"}
        negative == s # <<>> /\ Head(s) = "-"
        ds == LeadingDigits(IF signed THEN Tail(s) ELSE s)
    IN  IF ds = <<>> THEN [nan |-> TRUE, val |-> 0]
        ELSE [nan |-> FALSE,
              val |-> IF negative THEN 0 - DecimalValue(ds) ELSE DecimalValue(ds)]

(***************************************************************************)
(* The request body: the three fields the code reads.  A field that the    *)
(* JSON object does not carry reads as undefined.                          *)
(***************************************************************************)
Body(n, e, a) == [name |-> n, email |-> e, age |-> a]

\* Object.keys(data): the fields the body carries (null counts, undefined
\* is an absent key)
Keys(data) ==
    {k \in {"name", "email", "age"} : data[k].kind # "undefined"}

\* !data || Object.keys(data).length === 0
\* the emptiness test with a bug: no body counts as empty
NoData_Never(data) == FALSE

NoData(data) == Keys(data) = {}

NameChecks(data, requireAll) ==
    IF requireAll /\ ~Truthy(data.name) THEN <<"Name is required">>
    ELSE IF Truthy(data.name) /\ ~Truthy(Str(trim(data.name.str)))
         THEN <<"Name cannot be empty">>
    ELSE <<>>

EmailChecks(data, requireAll) ==
    IF requireAll /\ ~Truthy(data.email) THEN <<"Email is required">>
    ELSE IF Truthy(data.email) /\ ~Truthy(Str(trim(data.email.str)))
         THEN <<"Email cannot be empty">>
    ELSE IF Truthy(data.email) /\ ~includes(data.email.str, "@")
         THEN <<"Invalid email format">>
    ELSE <<>>

\* the age check with a bug: zero is rejected too
AgeChecks_RejectsZero(data) ==
    IF data.age.kind # "undefined" /\ data.age.kind # "null"
    THEN LET age == parseInt(data.age)
         IN  IF age.nan \/ age.val <= 0
             THEN <<"Age must be a positive number">>
             ELSE <<>>
    ELSE <<>>

AgeChecks(data) ==
    IF data.age.kind # "undefined" /\ data.age.kind # "null"
    THEN LET age == parseInt(data.age)
         IN  IF age.nan \/ age.val < 0
             THEN <<"Age must be a positive number">>
             ELSE <<>>
    ELSE <<>>

\* function validateUserData(data, requireAll = true): the errors array
validateUserData(data, requireAll) ==
    NameChecks(data, requireAll) \o EmailChecks(data, requireAll) \o AgeChecks(data)

(***************************************************************************)
(* The store.  `users` is a plain object: its own properties, in insertion *)
(* order (the order of Object.values and Object.entries), are modelled as  *)
(* a sequence of User objects.  A lookup users[userId] also finds what the *)
(* object inherits from Object.prototype.                                  *)
(***************************************************************************)
VARIABLES
    users,      \* const users = {}: the User objects, in insertion order
    issued,     \* how many ids uuidv4() has generated
    clock,      \* the reading new Date() gives now
    last,       \* the request the last step handled, with its response
    deleted,    \* what the clients saw: the ids for which a DELETE was answered 200
    live,       \* what the clients saw: the records the 201 and 200 responses of
                \* POST and PUT returned, less those a DELETE answered with 200 removed
    call        \* the last call of validateUserData made on its own, and its result

vars == <<users, issued, clock, last, deleted, live, call>>

\* the values uuidv4() returns, in the order it returns them
UuidPool == <<"uuid-1", "uuid-2", "uuid-3", "uuid-4", "uuid-5", "uuid-6">>

uuidv4(n) == UuidPool[n + 1]

\* property names every plain object inherits from Object.prototype
ProtoKeys == {"constructor"}

\* class User, constructor(name, email, age = null)
\* the constructor with a bug: the two clock readings are taken in the
\* other order
NewUser_UpdatedFirst(id, name, email, age, t1, t2) ==
    [id |-> id,
     name |-> name,
     email |-> email,
     age |-> IF age.kind = "undefined" THEN Null ELSE age,
     created_at |-> t2,
     updated_at |-> t1]

NewUser(id, name, email, age, t1, t2) ==
    [id |-> id,
     name |-> name,
     email |-> email,
     age |-> IF age.kind = "undefined" THEN Null ELSE age,
     created_at |-> t1,
     updated_at |-> t2]

\* User.toDict
toDict(user) ==
    [id |-> user.id,
     name |-> user.name,
     email |-> user.email,
     age |-> user.age,
     created_at |-> user.created_at,
     updated_at |-> user.updated_at]

\* a parameter with the default `= null`: undefined reads as null
OrNull(v) == IF v.kind = "undefined" THEN Null ELSE v

\* update with a bug: a null argument overwrites the field
update_NullOverwrites(user, name, email, age, now) ==
    [user EXCEPT
        !.name = IF name.kind # "undefined" THEN name ELSE @,
        !.email = IF email.kind # "undefined" THEN email ELSE @,
        !.age = IF age.kind # "undefined" THEN age ELSE @,
        !.updated_at = now]

\* User.update(name = null, email = null, age = null)
\* update with a bug: it stamps created_at as well
update_StampsCreatedAt(user, name, email, age, now) ==
    [user EXCEPT
        !.name = IF OrNull(name) # Null THEN name ELSE @,
        !.email = IF OrNull(email) # Null THEN email ELSE @,
        !.age = IF OrNull(age) # Null THEN age ELSE @,
        !.created_at = now,
        !.updated_at = now]

update(user, name, email, age, now) ==
    [user EXCEPT
        !.name = IF OrNull(name) # Null THEN name ELSE @,
        !.email = IF OrNull(email) # Null THEN email ELSE @,
        !.age = IF OrNull(age) # Null THEN age ELSE @,
        !.updated_at = now]

\* the own property of `us` named userId, as the set of its positions
OwnIndex(us, userId) == {i \in 1..Len(us) : us[i].id = userId}

\* users[userId] is truthy: an own property, or one inherited from
\* Object.prototype
Found(us, userId) == OwnIndex(us, userId) # {} \/ userId \in ProtoKeys

\* String.prototype.toLowerCase, on the letters the model uses
LowerChar(c) == IF c = "A" THEN "a" ELSE IF c = "B" THEN "b" ELSE c

LowerCase(v) == [v EXCEPT !.str = [i \in 1..Len(v.str) |-> LowerChar(v.str[i])]]

\* the scan of app.post with a bug: emails compared ignoring case
EmailExists_IgnoringCase(us, email) ==
    \E i \in 1..Len(us) : LowerCase(us[i].email) = LowerCase(email)

\* the scan of app.post: some stored user has this email
EmailExists(us, email) == \E i \in 1..Len(us) : us[i].email = email

\* the scan of app.put: some other stored user has this email
EmailTaken(us, userId, email) ==
    \E i \in 1..Len(us) : us[i].id # userId /\ us[i].email = email

\* delete with a bug: the property stays
Remove_Nothing(us, userId) == us

\* delete users[userId]
Remove(us, userId) == SelectSeq(us, LAMBDA u : u.id # userId)

(***************************************************************************)
(* Responses: the status and the JSON payload.                             *)
(***************************************************************************)
Reply(status, kind, text, errors, list) ==
    [status |-> status, kind |-> kind, text |-> text, errors |-> errors, list |-> list]

ErrorReply(status, text) == Reply(status, "error", text, <<>>, <<>>)

ErrorsReply(errors) == Reply(400, "errors", "", errors, <<>>)

UserReply(status, user) == Reply(status, "user", "", <<>>, <<toDict(user)>>)

\* an exception inside a handler reaches the error middleware
InternalError == ErrorReply(500, "Internal server error")

(***************************************************************************)
(* The handlers, as functions of the store and the request: the response   *)
(* and the store afterwards.                                               *)
(***************************************************************************)
Outcome(res, us) == [res |-> res, users |-> us]

\* app.post('/users'); id, t1 and t2 are what uuidv4() and the two
\* new Date() of the constructor return
postUsers(us, data, id, t1, t2) ==
    IF NoData(data) THEN Outcome(ErrorReply(400, "No data provided"), us)
    ELSE LET errors == validateUserData(data, TRUE)
         IN  IF Len(errors) > 0 THEN Outcome(ErrorsReply(errors), us)
             ELSE IF EmailExists(us, data.email)
                  THEN Outcome(ErrorReply(409, "Email already exists"), us)
             ELSE LET user == NewUser(id, data.name, data.email, data.age, t1, t2)
                  IN  Outcome(UserReply(201, user), Append(us, user))

\* app.get('/users')
getUsers(us) ==
    Outcome(Reply(200, "list", "", <<>>, [i \in 1..Len(us) |-> toDict(us[i])]), us)

\* app.get('/users/:userId'); an inherited property has no toDict
getUser(us, userId) ==
    IF ~Found(us, userId) THEN Outcome(ErrorReply(404, "User not found"), us)
    ELSE IF OwnIndex(us, userId) = {} THEN Outcome(InternalError, us)
    ELSE LET i == CHOOSE j \in OwnIndex(us, userId) : TRUE
         IN  Outcome(UserReply(200, us[i]), us)

\* app.put with a bug: the record is updated before the scan for a
\* duplicate email, so a 409 leaves it changed
putUser_UpdateBeforeScan(us, userId, data, now) ==
    IF ~Found(us, userId) THEN Outcome(ErrorReply(404, "User not found"), us)
    ELSE IF NoData(data) THEN Outcome(ErrorReply(400, "No data provided"), us)
    ELSE LET errors == validateUserData(data, FALSE)
         IN  IF Len(errors) > 0 THEN Outcome(ErrorsReply(errors), us)
             ELSE IF OwnIndex(us, userId) = {} THEN Outcome(InternalError, us)
             ELSE LET i == CHOOSE j \in OwnIndex(us, userId) : TRUE
                      user == update(us[i], data.name, data.email, data.age, now)
                      after == [us EXCEPT ![i] = user]
                  IN  IF Truthy(data.email) /\ EmailTaken(us, userId, data.email)
                      THEN Outcome(ErrorReply(409, "Email already exists"), after)
                      ELSE Outcome(UserReply(200, user), after)

\* app.put('/users/:userId'); an inherited property has no update
putUser(us, userId, data, now) ==
    IF ~Found(us, userId) THEN Outcome(ErrorReply(404, "User not found"), us)
    ELSE IF NoData(data) THEN Outcome(ErrorReply(400, "No data provided"), us)
    ELSE LET errors == validateUserData(data, FALSE)
         IN  IF Len(errors) > 0 THEN Outcome(ErrorsReply(errors), us)
             ELSE IF Truthy(data.email) /\ EmailTaken(us, userId, data.email)
                  THEN Outcome(ErrorReply(409, "Email already exists"), us)
             ELSE IF OwnIndex(us, userId) = {} THEN Outcome(InternalError, us)
             ELSE LET i == CHOOSE j \in OwnIndex(us, userId) : TRUE
                      user == update(us[i], data.name, data.email, data.age, now)
                  IN  Outcome(UserReply(200, user), [us EXCEPT ![i] = user])

\* app.delete('/users/:userId'); deleting an inherited property removes
\* nothing
deleteUser(us, userId) ==
    IF ~Found(us, userId) THEN Outcome(ErrorReply(404, "User not found"), us)
    ELSE Outcome(Reply(200, "message", "User deleted successfully", <<>>, <<>>),
                 Remove(us, userId))

(***************************************************************************)
(* The requests the model sends.                                           *)
(***************************************************************************)
Names ==
    {Undefined, Null, Str(<<>>), Str(<<" ">>), Str(<<"A", "l">>), Str(<<"B", "o">>)}

Emails ==
    {Undefined, Null, Str(<<>>), Str(<<" ">>), Str(<<"a", "x">>),
     Str(<<"a", "@", "x">>), Str(<<"A", "@", "x">>)}

Ages ==
    {Undefined, Null, Num(0 - 1), Num(0), Num(5), Str(<<"7">>), Str(<<"x">>)}

Bodies == {Body(n, e, a) : n \in Names, e \in Emails, a \in Ages}

\* the :userId of a request: an issued or not yet issued uuid, or a name
\* inherited from Object.prototype
RequestIds == {UuidPool[i] : i \in 1..MaxIds} \cup ProtoKeys

\* what `last` records of a handled request
Request(method, userId, data, res) ==
    [method |-> method, userId |-> userId, data |-> data, res |-> res]

NoBody == Body(Undefined, Undefined, Undefined)

\* no request was handled by the last step
NoRequest == Request("", "", NoBody, Reply(0, "", "", <<>>, <<>>))

\* validateUserData has not been called on its own
NoCall == [data |-> NoBody, requireAll |-> TRUE, errors |-> <<>>, done |-> FALSE]

Init ==
    /\ users = <<>>
    /\ issued = 0
    /\ clock = 0
    /\ last = NoRequest
    /\ deleted = {}
    /\ live = {}
    /\ call = NoCall

\* time passes between two readings of new Date()
Tick ==
    /\ clock < MaxClock
    /\ clock' = clock + 1
    /\ last' = NoRequest
    /\ UNCHANGED <<users, issued, deleted, live, call>>

\* POST /users; the constructor reads the clock twice
PostUsers(data) ==
    \E d \in 0..1 :
        LET out == postUsers(users, data, uuidv4(issued), clock, clock + d)
        IN  /\ IF out.res.status = 201
               THEN /\ issued < MaxIds
                    /\ Len(users) < MaxUsers
                    /\ clock + d <= MaxClock
                    /\ issued' = issued + 1
                    /\ clock' = clock + d
               ELSE /\ d = 0
                    /\ UNCHANGED <<issued, clock>>
            /\ users' = out.users
            /\ last' = Request("POST", "", data, out.res)
            /\ live' = IF out.res.status = 201 THEN live \cup {out.res.list[1]} ELSE live
            /\ UNCHANGED <<deleted, call>>

\* GET /users
GetUsers ==
    LET out == getUsers(users)
    IN  /\ users' = out.users
        /\ last' = Request("GET", "", NoBody, out.res)
        /\ UNCHANGED <<issued, clock, deleted, live, call>>

\* GET /users/:userId
GetUser(userId) ==
    LET out == getUser(users, userId)
    IN  /\ users' = out.users
        /\ last' = Request("GET", userId, NoBody, out.res)
        /\ UNCHANGED <<issued, clock, deleted, live, call>>

\* PUT /users/:userId
PutUser(userId, data) ==
    LET out == putUser(users, userId, data, clock)
    IN  /\ users' = out.users
        /\ last' = Request("PUT", userId, data, out.res)
        /\ live' = IF out.res.status = 200
                   THEN {u \in live : u.id # userId} \cup {out.res.list[1]}
                   ELSE live
        /\ UNCHANGED <<issued, clock, deleted, call>>

\* DELETE /users/:userId
DeleteUser(userId) ==
    LET out == deleteUser(users, userId)
    IN  /\ users' = out.users
        /\ last' = Request("DELETE", userId, NoBody, out.res)
        /\ deleted' = IF out.res.status = 200 THEN deleted \cup {userId} ELSE deleted
        /\ live' = IF out.res.status = 200 THEN {u \in live : u.id # userId} ELSE live
        /\ UNCHANGED <<issued, clock, call>>

\* a call validateUserData(data, requireAll) on its own
Validate(data, requireAll) ==
    /\ call' = [data |-> data, requireAll |-> requireAll,
                errors |-> validateUserData(data, requireAll), done |-> TRUE]
    /\ UNCHANGED <<users, issued, clock, last, deleted, live>>

\* one step: time passes, or one request is handled; POST bodies are drawn
\* from PostB and PUT bodies from PutB
Handle(PostB, PutB) ==
    \/ Tick
    \/ \E data \in PostB : PostUsers(data)
    \/ GetUsers
    \/ \E userId \in RequestIds : GetUser(userId)
    \/ \E userId \in RequestIds, data \in PutB : PutUser(userId, data)
    \/ \E userId \in RequestIds : DeleteUser(userId)

AlName == Str(<<"A", "l">>)
BoName == Str(<<"B", "o">>)
LowerEmail == Str(<<"a", "@", "x">>)
UpperEmail == Str(<<"A", "@", "x">>)

\* the email values of a body: absent, null, empty, without '@', and two
\* addresses that differ in case only
EmailValues ==
    {Undefined, Null, Str(<<>>), Str(<<"a", "x">>), LowerEmail, UpperEmail}

\* creation bodies that vary the email, and the empty body
PostEmailBodies == {Body(AlName, e, Undefined) : e \in EmailValues} \cup {NoBody}

\* update bodies that vary the email, the empty body among them, and one
\* that names only the name
PutEmailBodies ==
    {Body(Undefined, e, Undefined) : e \in EmailValues}
        \cup {Body(AlName, Undefined, Undefined)}

Next == Handle(PostEmailBodies, PutEmailBodies)

Spec == Init /\ [][Next]_vars

\* the name values of a body: absent, null, empty, blank, and a name
NameValues == {Undefined, Null, Str(<<>>), Str(<<" ">>), AlName}

\* creation and update bodies that vary the name
PostNameBodies == {Body(n, LowerEmail, Undefined) : n \in NameValues}

PutNameBodies == {Body(n, Undefined, Undefined) : n \in NameValues}

NextNames == Handle(PostNameBodies, PutNameBodies)

SpecNames == Init /\ [][NextNames]_vars

\* the creation body of one user, and one that lacks the name
PostFieldBodies ==
    {Body(AlName, LowerEmail, Undefined), Body(Undefined, LowerEmail, Undefined)}

\* what an update body may carry for a field whose new value is v
FieldValues(v) == {Undefined, Null, v}

\* update bodies that carry at most one field, or all three
PutFieldBodies ==
    {Body(n, Undefined, Undefined) : n \in FieldValues(BoName)}
        \cup {Body(Undefined, e, Undefined) : e \in FieldValues(UpperEmail)}
        \cup {Body(Undefined, Undefined, a) : a \in FieldValues(Num(5))}
        \cup {Body(Null, Null, Null), Body(BoName, UpperEmail, Num(5))}

NextFields == Handle(PostFieldBodies, PutFieldBodies)

SpecFields == Init /\ [][NextFields]_vars

\* creation and update bodies that vary the age: absent, null, integers
\* below, at and above zero, a string of digits and one without
PostAgeBodies == {Body(AlName, LowerEmail, a) : a \in Ages}

PutAgeBodies == {Body(Undefined, Undefined, a) : a \in Ages}

NextAges == Handle(PostAgeBodies, PutAgeBodies)

SpecAges == Init /\ [][NextAges]_vars

\* the bodies validateUserData is called with on its own
NextValidate == \E data \in Bodies, requireAll \in BOOLEAN : Validate(data, requireAll)

SpecValidate == Init /\ [][NextValidate]_vars

(***************************************************************************)
(* The claims.                                                             *)
(***************************************************************************)
\* a value a body supplies: neither absent nor null
Supplied(v) == v.kind # "undefined" /\ v.kind # "null"

\* a string that is empty after trimming
Blank(v) == v.kind = "string" /\ trim(v.str) = <<>>

\* the request the step just handled
IsPost == last'.method = "POST"
IsPut == last'.method = "PUT"
IsList == last'.method = "GET" /\ last'.userId = ""

\* C1: in every reachable state no two stored users have the same email.
\* The code breaks it: a PUT whose email is the empty string skips both
\* the validation and the scan, and update stores it.
C1_UniqueEmails ==
    \A i, j \in 1..Len(users) : i # j => users[i].email # users[j].email

\* C2: every stored user's name is neither empty nor blank.  The code
\* breaks it: a PUT whose name is the empty string passes validation.
C2_NameNeverBlank ==
    \A i \in 1..Len(users) : ~Blank(users[i].name)

\* C3: a POST or PUT answered 400, 404 or 409 leaves the whole store as it
\* was, every field of every record included.
C3_RejectionLeavesStore ==
    [][((IsPost \/ IsPut) /\ last'.res.status \in {400, 404, 409})
           => users' = users]_vars

\* a PUT was answered 409 when the clock had moved past the target's
\* updated_at, so a refresh would have shown
C3_Witness ==
    /\ last.method = "PUT"
    /\ last.res.status = 409
    /\ \E i \in 1..Len(users) :
          users[i].id = last.userId /\ users[i].updated_at < clock

\* C4: a POST whose body passes validation is answered 409 "Email already
\* exists" exactly when a stored user has the body's email, character for
\* character, and the store keeps its size; otherwise it is answered 201
\* and the store gains exactly one record.
C4_PostConflict ==
    [][(IsPost /\ ~NoData(last'.data) /\ validateUserData(last'.data, TRUE) = <<>>)
           => IF \E i \in 1..Len(users) : users[i].email = last'.data.email
              THEN /\ last'.res = ErrorReply(409, "Email already exists")
                   /\ Len(users') = Len(users)
              ELSE /\ last'.res.status = 201
                   /\ Len(users') = Len(users) + 1]_vars

\* a POST was answered 409 while the store held two users whose emails
\* differ in case only
C4_Witness ==
    /\ last.method = "POST"
    /\ last.res.status = 409
    /\ \E i, j \in 1..Len(users) :
          users[i].email = LowerEmail /\ users[j].email = UpperEmail

\* C5: a PUT answered 200 overwrites exactly the fields among name, email
\* and age that the body supplies with a non-null value, leaves the others
\* as they were, and sets updated_at to the clock's reading.
C5_PutOverwritesSupplied ==
    [][(IsPut /\ last'.res.status = 200)
           => \E i \in 1..Len(users) :
                 /\ users[i].id = last'.userId
                 /\ Len(users') = Len(users)
                 /\ users'[i].name =
                       IF Supplied(last'.data.name) THEN last'.data.name
                       ELSE users[i].name
                 /\ users'[i].email =
                       IF Supplied(last'.data.email) THEN last'.data.email
                       ELSE users[i].email
                 /\ users'[i].age =
                       IF Supplied(last'.data.age) THEN last'.data.age
                       ELSE users[i].age
                 /\ users'[i].updated_at = clock']_vars

\* a PUT with only {age: 5} was answered 200: the age is 5, the name and
\* the email are those of the creation, updated_at moved past created_at
C5_Witness ==
    /\ last.method = "PUT"
    /\ last.res.status = 200
    /\ last.data = Body(Undefined, Undefined, Num(5))
    /\ \E i \in 1..Len(users) :
          /\ users[i].id = last.userId
          /\ users[i].age = Num(5)
          /\ users[i].name = AlName
          /\ users[i].email = LowerEmail
          /\ users[i].updated_at > users[i].created_at

\* C6: a PUT on an id that is not the id of a stored user is answered 404
\* whatever the body, and leaves the store as it was.  The code breaks it
\* for an id that names a property `users` inherits from Object.prototype.
C6_PutUnknownIs404 ==
    [][(IsPut /\ OwnIndex(users, last'.userId) = {})
           => (last'.res.status = 404 /\ users' = users)]_vars

\* C7: once a DELETE was answered 200 for an id, every later GET, PUT or
\* DELETE on that id is answered 404, and no later POST creates a user with
\* that id.  The code breaks it for an id that names an inherited property.
C7_DeletedStaysGone ==
    [][/\ (last'.method \in {"GET", "PUT", "DELETE"} /\ last'.userId \in deleted)
           => last'.res.status = 404
       /\ (IsPost /\ last'.res.status = 201)
           => last'.res.list[1].id \notin deleted]_vars

\* C8: GET /users returns exactly the records the clients saw created and
\* not deleted since, each once, with the values the last response for
\* them showed; and a POST of a valid body whose email none of them has is
\* answered 201.
C8_ListIsCreatedSet ==
    [][/\ IsList
           => /\ last'.res.status = 200
              /\ \A i \in 1..Len(last'.res.list) : last'.res.list[i] \in live'
              /\ \A u \in live' :
                    Cardinality({i \in 1..Len(last'.res.list) : last'.res.list[i] = u}) = 1
       /\ (/\ IsPost
           /\ ~NoData(last'.data)
           /\ validateUserData(last'.data, TRUE) = <<>>
           /\ \A u \in live : u.email # last'.data.email)
           => /\ last'.res.status = 201
              /\ last'.res.list[1] \in live'
              /\ Cardinality(live') = Cardinality(live) + 1]_vars

\* GET /users listed one record after two users were created and one of
\* them deleted
C8_Witness ==
    /\ last.method = "GET"
    /\ last.userId = ""
    /\ Len(last.res.list) = 1
    /\ issued = 2
    /\ deleted \cap {UuidPool[1], UuidPool[2]} # {}

\* C9: in both modes validateUserData reports "Name cannot be empty" for
\* every present name that is empty after trimming, "Email cannot be empty"
\* for every such email, and "Invalid email format" for every present email
\* that is not empty after trimming and has no '@'.  The code breaks it for
\* the empty string, which `data.name &&` takes for an absent value.
C9_BlankIsReported ==
    call.done =>
        /\ Blank(call.data.name)
              => \E i \in 1..Len(call.errors) : call.errors[i] = "Name cannot be empty"
        /\ Blank(call.data.email)
              => \E i \in 1..Len(call.errors) : call.errors[i] = "Email cannot be empty"
        /\ (/\ call.data.email.kind = "string"
            /\ ~Blank(call.data.email)
            /\ ~includes(call.data.email.str, "@"))
              => \E i \in 1..Len(call.errors) : call.errors[i] = "Invalid email format"

\* the error is one of those reported
Reports(errors, text) == \E i \in 1..Len(errors) : errors[i] = text

\* the age is present and does not parse to an integer >= 0
InvalidAge(v) == Supplied(v) /\ (parseInt(v).nan \/ parseInt(v).val < 0)

\* C10: for a creation payload validateUserData reports "Name is required"
\* exactly when the name is missing, "Email is required" exactly when the
\* email is missing and "Age must be a positive number" exactly when the
\* age is present and invalid, in every combination; and a POST with any of
\* these errors, whose body the handler validates, is answered 400 with the
\* whole list.  The code breaks it: an empty name or email, which is
\* present, is reported as required.
C10_RequiredExactlyWhenMissing ==
    (call.done /\ call.requireAll) =>
        /\ Reports(call.errors, "Name is required") <=> ~Supplied(call.data.name)
        /\ Reports(call.errors, "Email is required") <=> ~Supplied(call.data.email)
        /\ Reports(call.errors, "Age must be a positive number")
              <=> InvalidAge(call.data.age)
        /\ (call.errors # <<>> /\ ~NoData(call.data))
              => postUsers(users, call.data, uuidv4(issued), clock, clock).res
                    = ErrorsReply(call.errors)

\* the body without its age
WithoutAge(data) == [data EXCEPT !.age = Undefined]

\* the step handled a POST that, its age left aside, would be answered 201
PostValidButAge ==
    /\ IsPost
    /\ validateUserData(WithoutAge(last'.data), TRUE) = <<>>
    /\ \A i \in 1..Len(users) : users[i].email # last'.data.email

\* the step handled a PUT on a stored user that, its age left aside, would
\* be answered 200
PutValidButAge ==
    /\ IsPut
    /\ OwnIndex(users, last'.userId) # {}
    /\ validateUserData(WithoutAge(last'.data), FALSE) = <<>>
    /\ \A i \in 1..Len(users) :
          users[i].id = last'.userId \/ users[i].email # last'.data.email

C14_StoredAgeIsInteger ==
    \A i \in 1..Len(users) :
        \/ users[i].age = Null
        \/ users[i].age.kind = "number" /\ users[i].age.num >= 0

\* C12: the handlers are synchronous callbacks, so the scan and the insert
\* or update of one request are one step and concurrent requests are
\* handled in some order; therefore two requests that would give two
\* records the same email never both succeed: after an accepted POST or
\* PUT that supplied an email, no other record holds that email.  The code
\* breaks the conclusion through the fault of C1: a PUT whose email is the
\* empty string skips the scan.
C12_NoTwoSucceedWithOneEmail ==
    [][((IsPost \/ IsPut) /\ last'.res.status \in {200, 201}
            /\ Supplied(last'.data.email))
           => \A i \in 1..Len(users') :
                 users'[i].email = last'.data.email
                     => users'[i].id = last'.res.list[1].id]_vars

\* the step handled a PUT on a stored user with a body that is not empty
\* and passes validation
PutPassesValidation ==
    /\ IsPut
    /\ OwnIndex(users, last'.userId) # {}
    /\ last'.data # NoBody
    /\ validateUserData(last'.data, FALSE) = <<>>

\* the body of the PUT supplies the email of a different stored user
SuppliesOthersEmail ==
    /\ Supplied(last'.data.email)
    /\ \E i \in 1..Len(users) :
          users[i].id # last'.userId /\ users[i].email = last'.data.email

\* C13: a PUT on a stored user whose body passes validation is answered 409
\* exactly when the body supplies the email of a different stored user, and
\* 200 otherwise, the user's own current email included.  The code breaks
\* it through the fault of C1: the scan is skipped for the empty string.
C13_PutConflictExactly ==
    [][PutPassesValidation
           => IF SuppliesOthersEmail
              THEN last'.res.status = 409 /\ users' = users
              ELSE last'.res.status = 200]_vars

\* C15: GET and DELETE of /users/:userId answer 404 "User not found" for
\* every id that is not the id of a stored user and leave the store alone,
\* and answer 200 only for the id of a stored user.  The code breaks it:
\* users[userId] finds the properties every object inherits.
C15_UnknownIdIs404 ==
    [][(last'.method \in {"GET", "DELETE"} /\ ~IsList)
           => IF OwnIndex(users, last'.userId) = {}
              THEN /\ last'.res = ErrorReply(404, "User not found")
                   /\ users' = users
              ELSE last'.res.status = 200]_vars

\* C16: a PUT on a stored user with an empty body is answered 400 "No data
\* provided" and changes no field, updated_at included; a POST with an
\* empty body is answered 400 "No data provided", not the list of
\* validation errors, and creates nothing.
C16_EmptyBodyRejected ==
    [][/\ (IsPut /\ OwnIndex(users, last'.userId) # {} /\ last'.data = NoBody)
           => (last'.res = ErrorReply(400, "No data provided") /\ users' = users)
       /\ (IsPost /\ last'.data = NoBody)
           => (last'.res = ErrorReply(400, "No data provided") /\ users' = users)]_vars

\* a PUT with an empty body on a stored user, whose updated_at is behind
\* the clock, was answered 400
C16_Witness ==
    /\ last.method = "PUT"
    /\ last.data = NoBody
    /\ last.res = ErrorReply(400, "No data provided")
    /\ \E i \in 1..Len(users) :
          users[i].id = last.userId /\ users[i].updated_at < clock

\* the positions of the records a DELETE of userId has to leave
Others(us, userId) == {i \in 1..Len(us) : us[i].id # userId}

\* C17: a PUT changes neither the id nor the created_at of any record and
\* no field of a record other than its target; a DELETE answered 200 leaves
\* every record other than its target as it was, leaves no record of the
\* target and adds none.
C17_OnlyTargetTouched ==
    [][/\ IsPut
           => /\ Len(users') = Len(users)
              /\ \A i \in 1..Len(users) :
                    /\ users'[i].id = users[i].id
                    /\ users'[i].created_at = users[i].created_at
                    /\ users[i].id # last'.userId => users'[i] = users[i]
       /\ (last'.method = "DELETE" /\ last'.res.status = 200)
           => /\ Len(users') = Cardinality(Others(users, last'.userId))
              /\ \A i \in Others(users, last'.userId) :
                    \E j \in 1..Len(users') : users'[j] = users[i]
              /\ \A j \in 1..Len(users') :
                    \E i \in Others(users, last'.userId) : users[i] = users'[j]]_vars

\* a PUT was answered 200 while two users are stored, and its target was
\* created before it was updated
C17_Witness ==
    /\ last.method = "PUT"
    /\ last.res.status = 200
    /\ Len(users) = 2
    /\ \E i \in 1..Len(users) :
          users[i].id = last.userId /\ users[i].created_at < users[i].updated_at

\* C18: in every reachable state every stored user has
\* updated_at >= created_at.  The timestamps are the clock readings: the
\* ISO format has fixed width, so its order is the order of the readings.
C18_UpdatedNotBeforeCreated ==
    \A i \in 1..Len(users) : users[i].updated_at >= users[i].created_at

\* a stored user was updated by a PUT at a later clock reading than the
\* one it was created at
C18_Witness ==
    /\ last.method = "PUT"
    /\ last.res.status = 200
    /\ \E i \in 1..Len(users) :
          /\ users[i].id = last.userId
          /\ users[i].updated_at > users[i].created_at
          /\ users[i].updated_at = clock

====
